---- MODULE Spec2Model ----
(***************************************************************************)
(* Model of the news ingestion of crypt/backend:                           *)
(*   mongodb.py      upload_to_mongodb(collection_name, article_data)      *)
(*   upload_data.py  the run script: fetch block, upload_articles_to_db    *)
(*   rss.py, apis.py the fetchers                                          *)
(* The document store (pymongo) is modelled by what the code asks of it:   *)
(* distinct("article_id") and insert_many(documents).                      *)
(***************************************************************************)
EXTENDS Integers, Sequences, FiniteSets, TLC

\* ------------------------------------------------------------------ bounds
MaxBatch == 2       \* longest candidate batch handed to upload_to_mongodb
MaxFeed == 1        \* most entries a feed returns to a fetcher
MaxCalls == 2       \* sessions (direct invocations and script runs) explored

\* --------------------------------------------------------------- constants
\* upload_data.py:27-48, in the order the script uploads them
Collections == <<"rekt_news", "crypto_news", "newscatcher_news", "youtube_news">>

CollectionNames == {Collections[k] : k \in 1..Len(Collections)}

\* the collections callers other than the script invoke the function on
\* (the function treats every name alike, mongodb.py:43)
CallCollections == {"rekt_news", "crypto_news"}

\* values of the article_id field
ArticleIds == {1, 2}

\* a record is a dict with an 'article_id' key
Records == [article_id : ArticleIds]

Batches == UNION {[1..n -> Records] : n \in 0..MaxBatch}

\* condition of the store during a session: every call succeeds, the
\* distinct query raises, or insert_many raises
StoreModes == {"up", "query_fails", "insert_fails"}

\* the exception classes upload_to_mongodb tells apart (mongodb.py:54,56)
InsertErrors == {"PyMongoError", "Exception"}

\* Python's None and an int, as results of a call
None == [type |-> "NoneType", value |-> 0]

IntVal(n) == [type |-> "int", value |-> n]

\* ----------------------------------------------------------------- helpers
IdsOf(s) == {s[k].article_id : k \in 1..Len(s)}

IsPrefix(s, t) == Len(s) <= Len(t) /\ SubSeq(t, 1, Len(s)) = s

\* number of documents of s carrying identifier a
CountId(s, a) == Cardinality({k \in 1..Len(s) : s[k].article_id = a})

Msg(m, n) == [msg |-> m, n |-> n]

\* --------------------------------------------------------------- the state
VARIABLES
    store,      \* db[collection_name]: the documents of each collection, in insertion order
    mode,       \* condition of the store during the current session
    frame,      \* the activation of upload_to_mongodb, per invocation
    run,        \* the run of the script upload_data.py
    ops,        \* store operations issued in the current session, in order
    ncalls      \* sessions started so far

vars == <<store, mode, frame, run, ops, ncalls>>

\* the activations of upload_to_mongodb that can exist at once: the batch job
\* uses the first only, concurrent writers use both
Invocations == {1, 2}

NoPrev == [result |-> "none", toInsert |-> <<>>, stored |-> 0]

IdleFrame ==
    [pc |-> "idle", caller |-> "none", coll |-> Collections[1], batch |-> <<>>,
     existing |-> {}, toInsert |-> <<>>, out |-> <<>>, ret |-> None,
     exc |-> "none", result |-> "none", stored |-> 0, pre |-> <<>>, prev |-> NoPrev]

IdleRun ==
    [pc |-> "idle", idx |-> 0, fetched |-> [c \in CollectionNames |-> <<>>],
     fetchOk |-> {}, err |-> "none", log |-> <<>>, invoked |-> {}, skipped |-> {},
     pre |-> [c \in CollectionNames |-> <<>>]]

Init ==
    /\ store = [c \in CollectionNames |-> <<>>]
    /\ mode = "up"
    /\ frame = [i \in Invocations |-> IdleFrame]
    /\ run = IdleRun
    /\ ops = <<>>
    /\ ncalls = 0

FrameOver(f) == f.pc \in {"idle", "returned", "raised"}

RunOver(r) == r.pc \in {"idle", "done", "raised"}

\* nothing is executing: the batch job is single-threaded, run to completion
Quiescent == RunOver(run) /\ \A i \in Invocations : FrameOver(frame[i])

\* ------------------------------------------------- mongodb.upload_to_mongodb
\* mongodb.py:32, the parameters of upload_to_mongodb
UploadToMongodbParams == {"collection_name", "article_data"}

\* mongodb.py:43, entry of the function body on collection c with batch b
EnterFrame(caller, c, b, prev) ==
    [IdleFrame EXCEPT !.pc = "distinct", !.caller = caller, !.coll = c, !.batch = b,
                      !.pre = store[c], !.prev = prev]

\* upload_data.py:26-48: the script goes on to its next upload, or ends
NextUpload(r) ==
    IF r.idx < Len(Collections)
    THEN [r EXCEPT !.pc = "upload", !.idx = r.idx + 1]
    ELSE [r EXCEPT !.pc = "done"]

\* what the script does when a call of upload_to_mongodb it made is over:
\* a normal return continues the script, an exception ends the run
RunAfterCall(f) ==
    IF f.caller # "script" THEN run
    ELSE IF f.pc = "raised" THEN [run EXCEPT !.pc = "raised", !.err = f.exc]
    ELSE NextUpload(run)

\* the query asks for a field no document has: nothing is known as stored
DistinctNothing(docs) == {}

\* mongodb.py:45, set(mongodb_collection.distinct("article_id"))
DistinctArticleIds(docs) == IdsOf(docs)

Distinct(i) ==
    LET f == frame[i] IN
    /\ f.pc = "distinct"
    /\ LET g == IF mode = "query_fails"
                THEN [f EXCEPT !.pc = "raised", !.exc = "PyMongoError",
                               !.result = "distinct_failed"]
                ELSE [f EXCEPT !.pc = "filter",
                               !.existing = DistinctArticleIds(store[f.coll])]
       IN /\ frame' = [frame EXCEPT ![i] = g]
          /\ run' = RunAfterCall(g)
    /\ ops' = Append(ops, [op |-> "distinct", coll |-> f.coll, inv |-> i])
    /\ UNCHANGED <<store, mode, ncalls>>

\* the membership test reversed: "in" for "not in"
ArticlesToInsertInverted(article_data, existing_article_ids) ==
    SelectSeq(article_data, LAMBDA article : article.article_id \in existing_article_ids)

\* the filter dropped: the whole batch goes to the store
ArticlesToInsertUnfiltered(article_data, existing_article_ids) == article_data

\* mongodb.py:48, the articles whose article_id is not in existing_article_ids
ArticlesToInsert(article_data, existing_article_ids) ==
    SelectSeq(article_data, LAMBDA article : article.article_id \notin existing_article_ids)

\* mongodb.py:47-50 and 58-59
FilterArticles(i) ==
    LET f == frame[i]
        new == ArticlesToInsert(f.batch, f.existing)
        dbg == Append(f.out, Msg("DEBUG: Inserting articles", 0))
    IN
    /\ f.pc = "filter"
    /\ LET g == IF new # <<>>
                THEN [f EXCEPT !.pc = "insert", !.toInsert = new, !.out = dbg]
                ELSE [f EXCEPT !.pc = "returned", !.toInsert = new, !.ret = None,
                               !.result = "no_new",
                               !.out = Append(dbg, Msg("No new articles to insert.", 0))]
       IN /\ frame' = [frame EXCEPT ![i] = g]
          /\ run' = RunAfterCall(g)
    /\ UNCHANGED <<store, mode, ops, ncalls>>

\* the collection's documents replaced by the new ones
InsertedReplacing(docs, new) == new

\* insert_one of the first new document in place of insert_many
InsertedOnlyFirst(docs, new) == docs \o SubSeq(new, 1, 1)

\* mongodb.py:52, insert_many appends the documents to the collection
InsertedInto(docs, new) == docs \o new

\* mongodb.py:53, the message printed after a successful insert
InsertedMessage(articles_to_insert) == Msg("Inserted", Len(articles_to_insert))

\* mongodb.py:54-57, the message printed for a failed insert
ErrorMessage(e) == IF e = "PyMongoError" THEN Msg("PyMongo error", 0) ELSE Msg("General error", 0)

\* the collection name hard-coded: the documents go to the first collection
InsertManyOkElsewhere(i) ==
    LET f == frame[i]
        c == Collections[1]
    IN
    /\ f.pc = "insert"
    /\ mode # "insert_fails"
    /\ store' = [store EXCEPT ![c] = InsertedInto(store[c], f.toInsert)]
    /\ frame' = [frame EXCEPT ![i] = [f EXCEPT !.pc = "returned", !.result = "inserted",
                                              !.stored = Len(f.toInsert)]]
    /\ run' = RunAfterCall(frame'[i])
    /\ ops' = Append(ops, [op |-> "insert_many", coll |-> c, inv |-> i])
    /\ UNCHANGED <<mode, ncalls>>

\* mongodb.py:51-53, insert_many succeeds
InsertManyOk(i) ==
    LET f == frame[i] IN
    /\ f.pc = "insert"
    /\ mode # "insert_fails"
    /\ store' = [store EXCEPT ![f.coll] = InsertedInto(store[f.coll], f.toInsert)]
    /\ LET g == [f EXCEPT !.pc = "returned", !.ret = None, !.result = "inserted",
                          !.stored = Len(f.toInsert),
                          !.out = Append(f.out, InsertedMessage(f.toInsert))]
       IN /\ frame' = [frame EXCEPT ![i] = g]
          /\ run' = RunAfterCall(g)
    /\ ops' = Append(ops, [op |-> "insert_many", coll |-> f.coll, inv |-> i])
    /\ UNCHANGED <<mode, ncalls>>

\* the handler sends the failed batch again: the invocation stays at its insert
InsertManyFailsRetry(i) ==
    LET f == frame[i] IN
    /\ f.pc = "insert"
    /\ mode = "insert_fails"
    /\ Len(ops) < 4
    /\ frame' = [frame EXCEPT ![i].out = Append(f.out, Msg("PyMongo error", 0))]
    /\ ops' = Append(ops, [op |-> "insert_many", coll |-> f.coll, inv |-> i])
    /\ UNCHANGED <<store, mode, run, ncalls>>

\* mongodb.py:51-57, insert_many raises after the store took the first k
\* documents (an ordered bulk write stops at the first failing document)
InsertManyFails(i) ==
    LET f == frame[i] IN
    /\ f.pc = "insert"
    /\ mode = "insert_fails"
    /\ \E k \in 0..(Len(f.toInsert) - 1), e \in InsertErrors :
          /\ store' = [store EXCEPT
                          ![f.coll] = InsertedInto(store[f.coll], SubSeq(f.toInsert, 1, k))]
          /\ LET g == [f EXCEPT !.pc = "returned", !.ret = None, !.exc = e,
                                !.result = "insert_failed", !.stored = k,
                                !.out = Append(f.out, ErrorMessage(e))]
             IN /\ frame' = [frame EXCEPT ![i] = g]
                /\ run' = RunAfterCall(g)
    /\ ops' = Append(ops, [op |-> "insert_many", coll |-> f.coll, inv |-> i])
    /\ UNCHANGED <<mode, ncalls>>

\* ------------------------------------------------ callers of the function
\* a caller invokes upload_to_mongodb(c, b) while nothing else is executing
Call(i, c, b, m) ==
    /\ Quiescent
    /\ ncalls < MaxCalls
    /\ frame' = [frame EXCEPT ![i] = EnterFrame("direct", c, b, NoPrev)]
    /\ run' = IdleRun
    /\ mode' = m
    /\ ops' = <<>>
    /\ ncalls' = ncalls + 1
    /\ UNCHANGED store

\* the caller invokes the function again with the arguments of the call that
\* just ended
Recall(i, m) ==
    LET f == frame[i] IN
    /\ Quiescent
    /\ f.pc \in {"returned", "raised"}
    /\ f.caller = "direct"
    /\ ncalls < MaxCalls
    /\ frame' = [frame EXCEPT ![i] =
                    EnterFrame("direct", f.coll, f.batch,
                               [result |-> f.result, toInsert |-> f.toInsert,
                                stored |-> f.stored])]
    /\ run' = IdleRun
    /\ mode' = m
    /\ ops' = <<>>
    /\ ncalls' = ncalls + 1
    /\ UNCHANGED store

\* ------------------------------------------------------------ the fetchers
\* rss.py:21, article_id = int(sha256(link).hexdigest(), 16) % (10**6)
IdModulus == 1000000

\* the entries a feed or an API response can carry: the n latest, n <= MaxFeed
Feeds == {[k \in 1..n |-> [id |-> k]] : n \in 0..MaxFeed}

\* rss.py:5-32, one record per feed entry, its article_id the digest of the
\* entry's link reduced modulo 10**6
GetRektNewsArticles(feed) ==
    [k \in 1..Len(feed) |-> [article_id |-> feed[k].id % IdModulus]]

\* rss.py:35-61, one record per feed entry, its article_id the number that
\* ends the entry's id
GetCryptoNewsArticles(feed) ==
    [k \in 1..Len(feed) |-> [article_id |-> feed[k].id]]

\* what newscatcher.search.get can do: raise ApiException, raise something
\* else, or answer with a status and articles
NewscatcherResponses ==
    {[kind |-> "ApiException", status |-> "none", articles |-> <<>>],
     [kind |-> "Exception", status |-> "none", articles |-> <<>>]}
    \cup {[kind |-> "response", status |-> st, articles |-> a] :
             st \in {"ok", "error"}, a \in Feeds}

\* apis.py:11-75: the list returned, or the exception that leaves the function
GetNewsFromNewscatcher(resp) ==
    IF resp.kind = "Exception" THEN [raised |-> TRUE, value |-> <<>>]
    ELSE IF resp.kind = "response" /\ resp.status = "ok"
    THEN [raised |-> FALSE,
          value |-> [k \in 1..Len(resp.articles) |-> [article_id |-> resp.articles[k].id]]]
    ELSE [raised |-> FALSE, value |-> <<>>]

\* apis.extract_youtube_videos: a zero-argument fetcher that returns a finite
\* sequence of records
ExtractYoutubeVideos(feed) ==
    [k \in 1..Len(feed) |-> [article_id |-> feed[k].id]]

\* ------------------------------------------------- the script upload_data.py
\* upload_data.py:22, the keywords of the call mdb.upload_to_mongodb(...)
CallKeywords == {"collection_name", "data"}

\* a call by keywords binds when the keywords are the parameters: an
\* unexpected or a missing keyword raises TypeError
CallBinds(keywords, params) == keywords = params

\* upload_data.py:8-11, a fetcher returned: its result is assigned
FetchReturned(r, c, articles, nextpc) ==
    [r EXCEPT !.fetched[c] = articles, !.fetchOk = @ \cup {c}, !.pc = nextpc]

\* the handler without its raise: the error is logged and the script goes on
FetchRaisedSwallowed(r, c) ==
    LET l == [r EXCEPT !.err = "FetchError",
                       !.log = Append(@, Msg("Error fetching news articles", 0))]
    IN IF c = "rekt_news" THEN [l EXCEPT !.pc = "fetch_crypto"]
       ELSE IF c = "crypto_news" THEN [l EXCEPT !.pc = "fetch_newscatcher"]
       ELSE IF c = "newscatcher_news" THEN [l EXCEPT !.pc = "fetch_youtube"]
       ELSE NextUpload([l EXCEPT !.pc = "upload"])

\* upload_data.py:12-14, a fetcher raised: the error is logged and raised again
FetchRaised(r, c) ==
    [r EXCEPT !.pc = "raised", !.err = "FetchError",
              !.log = Append(@, Msg("Error fetching news articles", 0))]

\* the script is started while nothing else is executing
RunStart(m) ==
    /\ Quiescent
    /\ ncalls < MaxCalls
    /\ run' = [IdleRun EXCEPT !.pc = "fetch_rekt", !.pre = store]
    /\ frame' = [i \in Invocations |-> IdleFrame]
    /\ mode' = m
    /\ ops' = <<>>
    /\ ncalls' = ncalls + 1
    /\ UNCHANGED store

\* upload_data.py:8
FetchRekt ==
    /\ run.pc = "fetch_rekt"
    /\ \/ \E feed \in Feeds :
             run' = FetchReturned(run, "rekt_news", GetRektNewsArticles(feed), "fetch_crypto")
       \/ run' = FetchRaised(run, "rekt_news")
    /\ UNCHANGED <<store, mode, frame, ops, ncalls>>

\* upload_data.py:9
FetchCrypto ==
    /\ run.pc = "fetch_crypto"
    /\ \/ \E feed \in Feeds :
             run' = FetchReturned(run, "crypto_news", GetCryptoNewsArticles(feed),
                                  "fetch_newscatcher")
       \/ run' = FetchRaised(run, "crypto_news")
    /\ UNCHANGED <<store, mode, frame, ops, ncalls>>

\* upload_data.py:10
FetchNewscatcher ==
    /\ run.pc = "fetch_newscatcher"
    /\ \E resp \in NewscatcherResponses :
          LET got == GetNewsFromNewscatcher(resp) IN
          run' = IF got.raised
                 THEN FetchRaised(run, "newscatcher_news")
                 ELSE FetchReturned(run, "newscatcher_news", got.value, "fetch_youtube")
    /\ UNCHANGED <<store, mode, frame, ops, ncalls>>

\* upload_data.py:11; after the last fetcher the script reaches its uploads
FetchYoutube ==
    /\ run.pc = "fetch_youtube"
    /\ \/ \E feed \in Feeds :
             run' = NextUpload(FetchReturned(run, "youtube_news",
                                             ExtractYoutubeVideos(feed), "upload"))
       \/ run' = FetchRaised(run, "youtube_news")
    /\ UNCHANGED <<store, mode, frame, ops, ncalls>>

\* upload_data.py:20-24, upload_articles_to_db for the collection the script
\* has reached
UploadArticlesToDb ==
    LET c == Collections[run.idx]
        article_data == run.fetched[c]
    IN
    /\ run.pc = "upload"
    /\ IF article_data = <<>>
       THEN /\ run' = NextUpload([run EXCEPT !.skipped = @ \cup {c},
                                            !.log = Append(@, Msg("No new data can be found", run.idx))])
            /\ UNCHANGED frame
       ELSE IF CallBinds(CallKeywords, UploadToMongodbParams)
       THEN /\ run' = [run EXCEPT !.pc = "call", !.invoked = @ \cup {c}]
            /\ frame' = [frame EXCEPT ![1] = EnterFrame("script", c, article_data, NoPrev)]
       ELSE /\ run' = [run EXCEPT !.pc = "raised", !.err = "TypeError"]
            /\ UNCHANGED frame
    /\ UNCHANGED <<store, mode, ops, ncalls>>

\* ------------------------------------------------------- the specification
Next ==
    \/ \E c \in CallCollections, b \in Batches, m \in StoreModes : Call(1, c, b, m)
    \/ \E m \in StoreModes : Recall(1, m)
    \/ \E m \in StoreModes : RunStart(m)
    \/ FetchRekt
    \/ FetchCrypto
    \/ FetchNewscatcher
    \/ FetchYoutube
    \/ UploadArticlesToDb
    \/ \E i \in Invocations : Distinct(i)
    \/ \E i \in Invocations : FilterArticles(i)
    \/ \E i \in Invocations : InsertManyOk(i)
    \/ \E i \in Invocations : InsertManyFails(i)

Spec == Init /\ [][Next]_vars

\* ------------------------------------------------------------ observations
\* positions in ops of the insert_many calls on collection c
InsertOps(c) == {k \in 1..Len(ops) : ops[k].op = "insert_many" /\ ops[k].coll = c}

\* positions in ops of the distinct queries on collection c
DistinctOps(c) == {k \in 1..Len(ops) : ops[k].op = "distinct" /\ ops[k].coll = c}

\* the documents collection c gained since the invocation f was entered
Added(f) == SubSeq(store[f.coll], Len(f.pre) + 1, Len(store[f.coll]))

\* the identifiers of a batch are pairwise distinct
DistinctIds(b) == Cardinality(IdsOf(b)) = Len(b)

\* the store calls an invocation made all succeeded and it is over
Succeeded(f) == f.pc = "returned" /\ f.result \in {"inserted", "no_new"}

\* the script is over, one way or the other
RunEnded == run.pc \in {"done", "raised"}

\* every fetcher of the run returned
FetchedAll == run.fetchOk = CollectionNames

\* ------------------------------------------------------------------ claims
\* C1: no two stored records of a collection share an article_id, whatever
\* sequence of single-threaded upload_to_mongodb invocations ran, also when a
\* batch itself repeats an identifier.
C1_UniqueArticleIds ==
    \A c \in CollectionNames : \A a \in ArticleIds : CountId(store[c], a) <= 1

\* C2: an invocation whose store calls succeed, on a batch with pairwise
\* distinct identifiers, leaves the records stored before in place and adds
\* exactly one record for each candidate identifier that was not stored
\* before the call, and none for any other identifier.
C2_InsertsExactlyNew ==
    \A i \in Invocations :
        LET f == frame[i] IN
        (Succeeded(f) /\ DistinctIds(f.batch)) =>
            /\ IsPrefix(f.pre, store[f.coll])
            /\ \A a \in ArticleIds :
                  CountId(Added(f), a) = IF a \in IdsOf(f.batch) \ IdsOf(f.pre) THEN 1 ELSE 0

\* C2 witness: a collection already holding an identifier was given a batch
\* with that identifier and a new one, and the invocation returned.
C2_Witness ==
    \E i \in Invocations :
        LET f == frame[i] IN
        /\ Succeeded(f) /\ DistinctIds(f.batch)
        /\ IdsOf(f.batch) \cap IdsOf(f.pre) # {}
        /\ IdsOf(f.batch) \ IdsOf(f.pre) # {}

\* C3: an invocation that repeats, right after it, an invocation whose store
\* calls succeeded (same collection, same batch) inserts nothing: it issues
\* no insert_many, stores no record and leaves the collection as the first
\* invocation left it.
C3_Idempotent ==
    \A i \in Invocations :
        LET f == frame[i] IN
        (f.pc \in {"returned", "raised"} /\ f.prev.result \in {"inserted", "no_new"}) =>
            /\ f.stored = 0
            /\ f.result # "inserted"
            /\ InsertOps(f.coll) = {}
            /\ store[f.coll] = f.pre

\* C3 witness: the repeat of an invocation that had inserted a batch is over.
C3_Witness ==
    \E i \in Invocations :
        /\ frame[i].pc = "returned"
        /\ frame[i].prev.result = "inserted"
        /\ frame[i].batch # <<>>

\* C4: no step updates or deletes a stored record: every collection's
\* documents stay in place, in order and unchanged, so no collection's record
\* count ever decreases.
C4_NeverUpdatedOrDeleted ==
    [][\A c \in CollectionNames : IsPrefix(store[c], store'[c])]_vars

\* C4 witness: an invocation on a collection that held records is over and
\* has added records to it.
C4_Witness ==
    \E i \in Invocations :
        /\ frame[i].pc = "returned"
        /\ frame[i].pre # <<>>
        /\ Len(store[frame[i].coll]) > Len(frame[i].pre)

\* C5: when a fetcher raised, the run still hands every other source whose
\* fetch returned a non-empty batch to the deduplicator, and that source's
\* records are stored when the run is over.
C5_PartialFailureIsolation ==
    (RunEnded /\ run.err = "FetchError") =>
        \A c \in run.fetchOk :
            run.fetched[c] # <<>> =>
                /\ c \in run.invoked
                /\ IdsOf(run.fetched[c]) \subseteq IdsOf(store[c])

\* C6: a failed distinct query is surfaced as an error that is no insert
\* failure, no insert_many follows it in the invocation, and a run during
\* which the store's distinct query fails still processes every collection.
C6_DistinctFailureIsolated ==
    /\ \A i \in Invocations :
          LET f == frame[i] IN
          f.result = "distinct_failed" =>
              /\ f.pc = "raised" /\ f.exc # "none"
              /\ \A k \in 1..Len(f.out) : f.out[k] \notin {ErrorMessage(e) : e \in InsertErrors}
              /\ InsertOps(f.coll) = {}
    /\ (RunEnded /\ FetchedAll /\ mode = "query_fails") =>
          \A c \in CollectionNames : c \in run.skipped \cup run.invoked

\* C7: a failed insert_many is caught and reported inside upload_to_mongodb,
\* which returns normally, and a run during which the store's insert_many
\* fails goes on to process every later collection and ends normally.
C7_InsertFailureIsolated ==
    /\ \A i \in Invocations :
          LET f == frame[i] IN
          f.result = "insert_failed" =>
              /\ f.pc = "returned" /\ f.ret = None
              /\ f.out[Len(f.out)] = ErrorMessage(f.exc)
    /\ (RunEnded /\ FetchedAll /\ mode = "insert_fails") =>
          /\ run.pc = "done"
          /\ \A c \in CollectionNames : c \in run.skipped \cup run.invoked

\* C8 as stated: the invocation's result is the number of records it stored.
C8_ReturnsInsertedCount ==
    \A i \in Invocations :
        frame[i].pc = "returned" => frame[i].ret = IntVal(Len(Added(frame[i])))

\* C8 as amended: the invocation's result is None, and the count is reported
\* in what it prints: after a successful insert the last message is
\* "Inserted n" with n the number of records the invocation stored (for a
\* batch of pairwise distinct identifiers, the number of its identifiers not
\* stored before); when nothing is new the last message is "No new articles
\* to insert." and nothing was stored.
C8_ReportsInsertedCount ==
    \A i \in Invocations :
        LET f == frame[i] IN
        f.pc = "returned" =>
            /\ f.ret = None
            /\ f.result = "inserted" =>
                  /\ f.out[Len(f.out)] = Msg("Inserted", Len(Added(f)))
                  /\ Len(Added(f)) > 0
                  /\ DistinctIds(f.batch) =>
                        Len(Added(f)) = Cardinality(IdsOf(f.batch) \ IdsOf(f.pre))
            /\ f.result = "no_new" =>
                  /\ f.out[Len(f.out)] = Msg("No new articles to insert.", 0)
                  /\ Len(Added(f)) = 0

\* C8 witness: an invocation on a collection that held one of the two
\* identifiers of its batch returned after inserting one record.
C8_Witness ==
    \E i \in Invocations :
        LET f == frame[i] IN
        /\ f.pc = "returned" /\ f.result = "inserted"
        /\ f.pre # <<>>
        /\ Len(f.batch) = 2
        /\ Len(Added(f)) = 1

\* C9: an invocation that is over issued no insert_many and stored nothing
\* when its batch was empty or every candidate identifier was stored before
\* it, and otherwise issued exactly one insert_many; an insert_many always
\* comes after the distinct query of its invocation; and a collection the
\* script skipped for its empty batch saw no store operation.
C9_NoWriteWithoutNew ==
    /\ \A i \in Invocations :
          LET f == frame[i] IN
          f.pc = "returned" =>
              IF IdsOf(f.batch) \subseteq IdsOf(f.pre)
              THEN InsertOps(f.coll) = {} /\ store[f.coll] = f.pre
              ELSE Cardinality(InsertOps(f.coll)) = 1
    /\ \A c \in CollectionNames :
          \A k \in InsertOps(c) : \E j \in DistinctOps(c) : j < k /\ ops[j].inv = ops[k].inv
    /\ \A c \in run.skipped : InsertOps(c) = {} /\ DistinctOps(c) = {}

\* C9 witness: an invocation whose non-empty batch was wholly stored before
\* it returned without an insert_many.
C9_Witness ==
    \E i \in Invocations :
        LET f == frame[i] IN
        /\ f.pc = "returned"
        /\ f.batch # <<>>
        /\ IdsOf(f.batch) \subseteq IdsOf(f.pre)
        /\ DistinctOps(f.coll) # {}
        /\ InsertOps(f.coll) = {}

\* C10: no collection sees more than one insert_many in a run or an
\* invocation, failed or not; and the invocation that repeats, with a working
\* store, an invocation whose insert_many failed and stored nothing, inserts
\* exactly the records that invocation tried to insert.
C10_FailedBatchRetriedLater ==
    /\ \A c \in CollectionNames : Cardinality(InsertOps(c)) <= 1
    /\ \A i \in Invocations :
          LET f == frame[i] IN
          (/\ f.pc = "returned"
           /\ f.prev.result = "insert_failed"
           /\ f.prev.stored = 0
           /\ mode = "up") =>
              /\ f.result = "inserted"
              /\ Added(f) = f.prev.toInsert
              /\ store[f.coll] = f.pre \o f.prev.toInsert

\* C10 witness: the repeat, with a working store, of an invocation whose
\* insert failed and stored nothing is over.
C10_Witness ==
    \E i \in Invocations :
        LET f == frame[i] IN
        /\ f.pc = "returned"
        /\ f.prev.result = "insert_failed"
        /\ f.prev.stored = 0
        /\ mode = "up"
        /\ Len(Added(f)) > 0


\* C11: a run in which every fetcher returned and every store call succeeds
\* ends normally, having handed each non-empty batch to the deduplicator for
\* its own collection, and each collection then holds every article_id of the
\* batch fetched for it.
C11_RunStoresEveryBatch ==
    (RunEnded /\ FetchedAll /\ mode = "up") =>
        /\ run.pc = "done"
        /\ \A c \in CollectionNames :
              /\ run.fetched[c] # <<>> => c \in run.invoked
              /\ IdsOf(run.fetched[c]) \subseteq IdsOf(store[c])


\* C12: ingesting a collection reads and writes that collection only: a step
\* changes no collection but the one the executing invocation was called on,
\* and every store operation it issues names that collection; and while a run
\* is under way or over, every collection the script has not yet reached is
\* as it was when the run started.
C12_CrossCollectionFrame ==
    /\ [](run.pc # "idle" =>
            \A k \in (run.idx + 1)..Len(Collections) :
                store[Collections[k]] = run.pre[Collections[k]])
    /\ [][/\ \A c \in CollectionNames :
                store'[c] # store[c] =>
                    \E i \in Invocations : frame[i].pc = "insert" /\ frame[i].coll = c
          /\ Len(ops') > Len(ops) =>
                \E i \in Invocations :
                    /\ frame[i].pc \in {"distinct", "insert"}
                    /\ ops'[Len(ops')].coll = frame[i].coll
                    /\ ops'[Len(ops')].inv = i]_vars

\* C12 witness: an invocation has inserted into its collection while another
\* collection holds records.
C12_Witness ==
    \E i \in Invocations :
        /\ frame[i].pc = "returned"
        /\ frame[i].result = "inserted"
        /\ \E d \in CollectionNames \ {frame[i].coll} : store[d] # <<>>


\* C13: a failed fetch is logged and does not leave the fetch step as an
\* exception: the run is not ended by it, the failed source's collection sees
\* no insert_many during the run, and get_news_from_newscatcher answers an
\* ApiException or a response whose status is not "ok" with the empty list.
C13_FetchFailureTreatedAsEmpty ==
    /\ \A resp \in NewscatcherResponses :
          (resp.kind = "ApiException" \/ (resp.kind = "response" /\ resp.status # "ok")) =>
              GetNewsFromNewscatcher(resp) = [raised |-> FALSE, value |-> <<>>]
    /\ run.pc # "idle" => \A c \in CollectionNames \ run.fetchOk : InsertOps(c) = {}
    /\ run.err = "FetchError" =>
          /\ run.log # <<>>
          /\ run.log[Len(run.log)] = Msg("Error fetching news articles", 0)
          /\ run.pc # "raised"


\* ------------------------------------------------------ concurrent writers
\* the batches whose identifiers are pairwise distinct
DistinctBatches == {b \in Batches : DistinctIds(b)}

\* a writer invokes upload_to_mongodb(c, b) whatever the other writer is doing;
\* the store works and the operations of all invocations are kept in ops
CallConc(i, c, b) ==
    /\ run.pc = "idle"
    /\ FrameOver(frame[i])
    /\ ncalls < MaxCalls
    /\ frame' = [frame EXCEPT ![i] = EnterFrame("direct", c, b, NoPrev)]
    /\ ncalls' = ncalls + 1
    /\ UNCHANGED <<store, mode, run, ops>>

NextConc ==
    \/ \E i \in Invocations, c \in CallCollections, b \in DistinctBatches : CallConc(i, c, b)
    \/ \E i \in Invocations : Distinct(i)
    \/ \E i \in Invocations : FilterArticles(i)
    \/ \E i \in Invocations : InsertManyOk(i)

SpecConc == Init /\ [][NextConc]_vars

\* collection c holds two records with one article_id
HasDuplicate(c) == \E a \in ArticleIds : CountId(store[c], a) > 1

\* on collection c an invocation's insert_many came after another
\* invocation's insert_many that its own distinct query had not seen
StaleInsert(c) ==
    \E j \in DistinctOps(c), k \in InsertOps(c) :
        /\ j < k
        /\ ops[j].inv = ops[k].inv
        /\ \A n \in (j + 1)..(k - 1) : ops[n].inv # ops[k].inv
        /\ \E m \in InsertOps(c) : j < m /\ m < k /\ ops[m].inv # ops[k].inv

\* C14: with batches of pairwise distinct identifiers, a collection comes to
\* hold two records with one article_id only through the check-then-insert
\* race, an invocation inserting after another invocation's insert that its
\* distinct query preceded; invocations run strictly one after another never
\* produce that state.
C14_DuplicateOnlyByRace ==
    \A c \in CollectionNames : HasDuplicate(c) => StaleInsert(c)

\* C14 witness: two invocations on one collection both made their distinct
\* query before either made its insert_many, both returned, and the
\* collection holds two records with one article_id.
C14_Witness ==
    \E c \in CollectionNames :
        /\ HasDuplicate(c)
        /\ frame[1].pc = "returned" /\ frame[2].pc = "returned"
        /\ frame[1].coll = c /\ frame[2].coll = c
        /\ Len(ops) = 4
        /\ ops[1].op = "distinct" /\ ops[2].op = "distinct"
        /\ ops[1].inv # ops[2].inv
        /\ ops[3].op = "insert_many" /\ ops[4].op = "insert_many"


\* C15: in a run the four fetchers are called in the order rekt, crypto.news,
\* newscatcher, youtube, and all four have returned before the script's first
\* store operation or upload step; when a fetcher raises, the error is
\* logged and raised again: the run is over, having issued no store
\* operation, reached no upload and changed no collection.
C15_FetchBeforeWrite ==
    run.pc # "idle" =>
        /\ \A k \in 2..Len(Collections) :
              Collections[k] \in run.fetchOk => Collections[k - 1] \in run.fetchOk
        /\ (ops # <<>> \/ run.invoked # {} \/ run.skipped # {}
               \/ run.pc \in {"upload", "call", "done"}) => FetchedAll
        /\ run.err = "FetchError" =>
              /\ run.pc = "raised"
              /\ run.log[Len(run.log)] = Msg("Error fetching news articles", 0)
              /\ ops = <<>>
              /\ run.invoked = {} /\ run.skipped = {}
              /\ store = run.pre

\* C15 witness: a run ended by a fetcher's exception after an earlier fetcher
\* had returned a non-empty batch, with no store operation issued.
C15_Witness ==
    /\ run.pc = "raised"
    /\ run.err = "FetchError"
    /\ \E c \in run.fetchOk : run.fetched[c] # <<>>
    /\ ops = <<>>

====
